---------------------------- MODULE Spec2Model ----------------------------
(***************************************************************************)
(* Model of the request-admission (token-bucket rate limiter, idle         *)
(* sweeper, router chains) and range-aware streaming code of ginPrismaApp. *)
(*                                                                         *)
(* Six specifications share this module:                                   *)
(*   Spec        the two rate limiter registries, their sweepers and the   *)
(*               requests on the routes the middlewares guard;             *)
(*   SpecGeneral one registry on its own (the general policy);             *)
(*   SpecRouter  the requests on the routes SetupRouter registers;         *)
(*   SpecMiddleware the guarded routes with no sweeper;                    *)
(*   SpecStream  the Stream handler, parseRange and ReadBuffer             *)
(*               (package services);                                       *)
(*   SpecUpload  the UploadVideo handler (package services).               *)
(***************************************************************************)
EXTENDS Integers, Sequences, FiniteSets, TLC

(***************************************************************************)
(* Bounds of the model.                                                    *)
(***************************************************************************)
\* number of requests; each is served by a goroutine of its own
NumTasks == 2
\* number of distinct client IPs (rate limiter keys)
NumKeys == 2
\* the clock runs from 0 to MaxTime
MaxTime == 2
\* A token is TokenUnit indivisible units, so that a fraction of a token
\* (rate.Limiter keeps tokens as float64) is representable.
TokenUnit == 2
\* general policy: burst, and units refilled per clock tick
GeneralBurst == 1
GeneralRate == 2
\* strict policy: lower burst, slower refill
StrictBurst == 1
StrictRate == 1

Tasks == 1..NumTasks
Keys == 1..NumKeys
Policies == {"general", "strict"}

\* NewRateLimiter(rps, burst): the two registries the spec names.
Burst(p) == IF p = "general" THEN GeneralBurst ELSE StrictBurst
Rate(p) == IF p = "general" THEN GeneralRate ELSE StrictRate

Min(a, b) == IF a < b THEN a ELSE b

VARIABLES
    now,        \* time.Now(), in clock ticks
    limiters,   \* rl.limiters, per registry: key -> bucket (index of buckets)
    buckets,    \* the rate.Limiter objects alive on the heap, by address
    mu,         \* rl.mu, per registry: Unlocked, a task, or the sweeper
    sweeper,    \* per registry: the CleanupExpiredLimiters goroutine
    req,        \* per task: the request it is serving
    admits      \* history: per registry and key, the requests admitted so far

rlvars == <<now, limiters, buckets, mu, sweeper, req, admits>>

\* The state of the Stream handler (package services) serving one request:
\* its inputs, its position, its locals, the response, the object it reads,
\* what it logged and whether the client is still there.
VARIABLES objectName, rangeHeader, objectSize, enforceLength, spc, fileSize,
          start, end, resp, object, slog, clientGone

svars == <<objectName, rangeHeader, objectSize, enforceLength, spc, fileSize,
           start, end, resp, object, slog, clientGone>>

\* The state of UploadVideo (package services) serving one request.
VARIABLE upload

vars == <<rlvars, svars, upload>>

(***************************************************************************)
(* rate.Limiter (golang.org/x/time/rate), as the middleware uses it.       *)
(***************************************************************************)
\* rate.NewLimiter(rl.rate, rl.burst): a full bucket.
NewLimiter(p) == [policy |-> p, tokens |-> Burst(p) * TokenUnit, last |-> now]

\* Limiter.advance: the tokens the bucket holds at time t, clamped to burst.
Advance(b, t) ==
    LET last == IF t < b.last THEN t ELSE b.last
    IN  Min(Burst(b.policy) * TokenUnit, b.tokens + (t - last) * Rate(b.policy))

\* limiter.TokensAt(time.Now())
TokensAt(b, t) == Advance(b, t)

\* limiter.Allow(): whether one whole token is there at time t.
AllowOk(b, t) == Advance(b, t) >= TokenUnit

\* The bucket after Allow() at time t: an admitted call takes one token and
\* moves last; a denied call leaves the bucket as it was.
AllowState(b, t) ==
    IF AllowOk(b, t)
    THEN [b EXCEPT !.tokens = Advance(b, t) - TokenUnit, !.last = t]
    ELSE b

(***************************************************************************)
(* Routes and their handler chains.                                        *)
(***************************************************************************)
\* SetupRouter: gin.Default() plus the groups' middleware; no rate limiter
\* is installed on any route.
SetupRouterChain(route) ==
    CASE route = "register" -> <<"handler">>
      [] route = "login"    -> <<"handler">>
      [] route = "profile"  -> <<"jwt", "handler">>

SetupRouterRoutes == {"register", "login", "profile"}

\* Routes guarded with the exported middlewares, as a caller of
\* RateLimitMiddleware / StrictRateLimitMiddleware installs them.
GuardedChain(route) ==
    CASE route = "limited"   -> <<"general", "handler">>
      [] route = "sensitive" -> <<"general", "strict", "handler">>

GuardedRoutes == {"limited", "sensitive"}

Routes == SetupRouterRoutes \cup GuardedRoutes

Chain(route) ==
    IF route \in SetupRouterRoutes THEN SetupRouterChain(route)
    ELSE GuardedChain(route)

Unlocked == 0
SweeperId == NumTasks + 1

IdleReq ==
    [pc |-> "idle", route |-> "none", key |-> 0, idx |-> 0, lim |-> <<>>,
     stale |-> FALSE, status |-> 0, retryAfter |-> FALSE,
     deniedBy |-> "none", ran |-> 0, admittedBy |-> {}]

\* The limiters still referenced, by a registry's map or by a request's local
\* variable; the garbage collector frees the others.
Referenced(lims, rq) ==
    UNION {{lims[p][k] : k \in DOMAIN lims[p]} : p \in Policies}
        \cup {rq[t].lim : t \in Tasks}

Collect(bs, lims, rq) ==
    [id \in DOMAIN bs \cap Referenced(lims, rq) |-> bs[id]]

\* The address of a newly allocated limiter: the registry and key it is made
\* for, and a number that tells it from the limiters made for them before
\* that are still alive.
NewAddress(p, k) ==
    <<p, k, CHOOSE g \in 1..(Cardinality(DOMAIN buckets) + 1) :
                <<p, k, g>> \notin DOMAIN buckets>>

\* NewRateLimiter: an empty map, an unlocked mutex; no goroutine is started.
\* Stream before a request, and no request for it at all
NoResponse ==
    [status |-> 0, acceptRanges |-> FALSE, contentType |-> "",
     contentLength |-> -1, contentRange |-> <<>>, body |-> <<>>,
     flushes |-> 0]

NoStream ==
    /\ objectName = ""
    /\ rangeHeader = <<>>
    /\ objectSize = 0
    /\ enforceLength = FALSE
    /\ spc = "stat"
    /\ fileSize = 0
    /\ start = 0
    /\ end = 0
    /\ resp = NoResponse
    /\ object = [state |-> "none", pos |-> 0, limit |-> 0]
    /\ slog = {}
    /\ clientGone = FALSE

InitLimiter ==
    /\ now = 0
    /\ limiters = [p \in Policies |-> <<>>]
    /\ buckets = <<>>
    /\ mu = [p \in Policies |-> Unlocked]
    /\ sweeper = [p \in Policies |-> [pc |-> "notstarted", todo |-> {}, kept |-> {}]]
    /\ req = [t \in Tasks |-> IdleReq]
    /\ admits = [p \in Policies |-> [k \in Keys |-> 0]]

\* UploadVideo before a request, and no request for it at all
NoUpload ==
    upload = [pc |-> "read", bodyLen |-> 0, formLen |-> 0, hasFile |-> FALSE,
              read |-> 0, status |-> 0, puts |-> 0, stored |-> -1]

Init == InitLimiter /\ NoStream /\ NoUpload

\* The middleware a task is at.
Current(t) == Chain(req[t].route)[req[t].idx]

(***************************************************************************)
(* A request arrives: gin runs the route's chain from its first handler.   *)
(***************************************************************************)
\* Requests are numbered in their order of arrival and client addresses in
\* their order of first appearance.
SeenKeys == {req[u].key : u \in {x \in Tasks : req[x].pc # "idle"}}

StartRequest(t, routes) ==
    /\ req[t].pc = "idle"
    /\ \A u \in Tasks : u < t => req[u].pc # "idle"
    /\ \E route \in routes, key \in Keys :
          /\ \A j \in Keys : j < key => j \in SeenKeys
          /\ req' = [req EXCEPT ![t] =
                    [IdleReq EXCEPT !.pc = "chain", !.route = route,
                                    !.key = key, !.idx = 1]]
    /\ UNCHANGED <<now, limiters, buckets, mu, sweeper, admits>>

(***************************************************************************)
(* RateLimitMiddleware / StrictRateLimitMiddleware.                        *)
(***************************************************************************)
\* rl.GetLimiter(key): rl.mu.Lock()
GetLimiterLock(t) ==
    /\ req[t].pc = "chain"
    /\ Current(t) \in Policies
    /\ mu[Current(t)] = Unlocked
    /\ mu' = [mu EXCEPT ![Current(t)] = t]
    /\ req' = [req EXCEPT ![t].pc = "getlimiter"]
    /\ UNCHANGED <<now, limiters, buckets, sweeper, admits>>

\* A lookup that never finds the key.
KeyExists_Never(p, k) == FALSE

\* limiter, exists := rl.limiters[key]
KeyExists(p, k) == k \in DOMAIN limiters[p]

\* rl.GetLimiter(key): the map lookup, the lazy creation, the deferred
\* rl.mu.Unlock() and the return.
GetLimiterReturn(t) ==
    LET p == Current(t)
        k == req[t].key
    IN  /\ req[t].pc = "getlimiter"
        /\ mu[p] = t
        /\ IF KeyExists(p, k)
           THEN /\ req' = [req EXCEPT ![t].pc = "allow", ![t].lim = limiters[p][k]]
                /\ UNCHANGED <<limiters, buckets>>
           ELSE /\ limiters' = [limiters EXCEPT ![p] =
                                  [x \in DOMAIN limiters[p] \cup {k} |->
                                      IF x = k THEN NewAddress(p, k) ELSE limiters[p][x]]]
                /\ req' = [req EXCEPT ![t].pc = "allow", ![t].lim = NewAddress(p, k)]
                /\ buckets' = Collect([id \in DOMAIN buckets \cup {NewAddress(p, k)} |->
                                          IF id = NewAddress(p, k) THEN NewLimiter(p)
                                          ELSE buckets[id]],
                                      limiters', req')
        /\ mu' = [mu EXCEPT ![p] = Unlocked]
        /\ UNCHANGED <<now, sweeper, admits>>

\* The body of the 429 response: only the strict middleware adds retry_after.
RetryAfterInBody(p) == p = "strict"

\* a middleware that writes the 429 and neither aborts nor returns
MiddlewareAllow_NoAbort(t) ==
    LET p == Current(t)
        b == buckets[req[t].lim]
        ok == AllowOk(b, now)
    IN  /\ req[t].pc = "allow"
        /\ admits' = [admits EXCEPT ![p][req[t].key] = IF ok THEN @ + 1 ELSE @]
        /\ IF ok
           THEN req' = [req EXCEPT ![t].pc = "chain", ![t].idx = @ + 1,
                                   ![t].lim = <<>>, ![t].stale = FALSE,
                                   ![t].admittedBy = @ \cup {p}]
           ELSE req' = [req EXCEPT ![t].pc = "chain", ![t].idx = @ + 1,
                                   ![t].status = 429,
                                   ![t].lim = <<>>, ![t].stale = FALSE,
                                   ![t].retryAfter = RetryAfterInBody(p),
                                   ![t].deniedBy = p]
        /\ buckets' = Collect([buckets EXCEPT ![req[t].lim] = AllowState(b, now)],
                              limiters, req')
        /\ UNCHANGED <<now, limiters, mu, sweeper>>

\* if !limiter.Allow() { c.JSON(429, ...); c.Abort(); return }; c.Next()
\* Allow runs on the limiter GetLimiter returned, after rl.mu was released;
\* the limiter's own mutex makes the call atomic.
MiddlewareAllow(t) ==
    LET p == Current(t)
        b == buckets[req[t].lim]
        ok == AllowOk(b, now)
    IN  /\ req[t].pc = "allow"
        /\ admits' = [admits EXCEPT ![p][req[t].key] = IF ok THEN @ + 1 ELSE @]
        /\ IF ok
           THEN req' = [req EXCEPT ![t].pc = "chain", ![t].idx = @ + 1,
                                   ![t].lim = <<>>, ![t].stale = FALSE,
                                   ![t].admittedBy = @ \cup {p}]
           ELSE req' = [req EXCEPT ![t].pc = "done", ![t].status = 429,
                                   ![t].lim = <<>>, ![t].stale = FALSE,
                                   ![t].retryAfter = RetryAfterInBody(p),
                                   ![t].deniedBy = p]
        /\ buckets' = Collect([buckets EXCEPT ![req[t].lim] = AllowState(b, now)],
                              limiters, req')
        /\ UNCHANGED <<now, limiters, mu, sweeper>>

(***************************************************************************)
(* jwtMiddleware and the route handlers.                                   *)
(***************************************************************************)
\* jwtMiddleware: a missing, malformed or invalid token aborts with 401.
JwtMiddleware(t) ==
    /\ req[t].pc = "chain"
    /\ Current(t) = "jwt"
    /\ \E valid \in BOOLEAN :
          req' = IF valid
                 THEN [req EXCEPT ![t].idx = @ + 1]
                 ELSE [req EXCEPT ![t].pc = "done", ![t].status = 401]
    /\ UNCHANGED <<now, limiters, buckets, mu, sweeper, admits>>

\* The route's handler runs and answers.
Handler(t) ==
    /\ req[t].pc = "chain"
    /\ Current(t) = "handler"
    /\ req' = [req EXCEPT ![t].pc = "done", ![t].status = 200, ![t].ran = @ + 1]
    /\ UNCHANGED <<now, limiters, buckets, mu, sweeper, admits>>

(***************************************************************************)
(* CleanupExpiredLimiters.                                                 *)
(***************************************************************************)
\* go rl.CleanupExpiredLimiters(): the call a user of the registry makes;
\* neither NewRateLimiter nor SetupRouter makes it.
StartSweeper(p) ==
    /\ sweeper[p].pc = "notstarted"
    /\ sweeper' = [sweeper EXCEPT ![p].pc = "waiting"]
    /\ UNCHANGED <<now, limiters, buckets, mu, req, admits>>

\* case <-ticker.C: rl.mu.Lock(); the range over rl.limiters begins. Over an
\* empty map the loop ends at once and rl.mu.Unlock() follows.
SweepTick(p) ==
    /\ sweeper[p].pc = "waiting"
    /\ mu[p] = Unlocked
    /\ IF DOMAIN limiters[p] = {}
       THEN UNCHANGED <<mu, sweeper>>
       ELSE /\ mu' = [mu EXCEPT ![p] = SweeperId]
            /\ sweeper' = [sweeper EXCEPT ![p] =
                              [pc |-> "sweeping", todo |-> DOMAIN limiters[p],
                               kept |-> {}]]
    /\ UNCHANGED <<now, limiters, buckets, req, admits>>

\* The comparison made on the stored token count, without the refill.
SweepShouldEvict_Stored(p, k) ==
    buckets[limiters[p][k]].tokens = Burst(p) * TokenUnit

\* limiter.TokensAt(time.Now()) == float64(rl.burst)
SweepShouldEvict(p, k) ==
    TokensAt(buckets[limiters[p][k]], now) = Burst(p) * TokenUnit

\* One iteration of the range loop; after the last one rl.mu.Unlock(), and
\* back to the select.
SweepInspect(p) ==
    /\ sweeper[p].pc = "sweeping"
    /\ \E k \in sweeper[p].todo :
          \* kept is history: the keys this sweep inspected and left in the map
          /\ sweeper' = [sweeper EXCEPT ![p] =
                [pc |-> IF sweeper[p].todo = {k} THEN "waiting" ELSE "sweeping",
                 todo |-> sweeper[p].todo \ {k},
                 kept |-> IF SweepShouldEvict(p, k) THEN sweeper[p].kept
                          ELSE sweeper[p].kept \cup {k}]]
          /\ mu' = IF sweeper[p].todo = {k} THEN [mu EXCEPT ![p] = Unlocked] ELSE mu
          /\ IF SweepShouldEvict(p, k)
             THEN /\ limiters' = [limiters EXCEPT ![p] =
                                    [x \in DOMAIN limiters[p] \ {k} |-> limiters[p][x]]]
                  \* history: the requests left holding the evicted limiter
                  /\ req' = [t \in Tasks |->
                               IF req[t].lim = limiters[p][k]
                               THEN [req[t] EXCEPT !.stale = TRUE] ELSE req[t]]
                  /\ buckets' = Collect(buckets, limiters', req')
             ELSE UNCHANGED <<limiters, req, buckets>>
    /\ UNCHANGED <<now, admits>>

\* Time passes.
Tick ==
    /\ now < MaxTime
    /\ now' = now + 1
    /\ UNCHANGED <<limiters, buckets, mu, sweeper, req, admits>>

\* Requests on the routes guarded by the rate limiting middlewares, the
\* sweepers and the clock.
Next ==
    \/ \E t \in Tasks : StartRequest(t, GuardedRoutes) /\ UNCHANGED <<svars, upload>>
    \/ \E t \in Tasks : GetLimiterLock(t) /\ UNCHANGED <<svars, upload>>
    \/ \E t \in Tasks : GetLimiterReturn(t) /\ UNCHANGED <<svars, upload>>
    \/ \E t \in Tasks : MiddlewareAllow(t) /\ UNCHANGED <<svars, upload>>
    \/ \E t \in Tasks : Handler(t) /\ UNCHANGED <<svars, upload>>
    \/ \E p \in Policies : StartSweeper(p) /\ UNCHANGED <<svars, upload>>
    \/ \E p \in Policies : SweepTick(p) /\ UNCHANGED <<svars, upload>>
    \/ \E p \in Policies : SweepInspect(p) /\ UNCHANGED <<svars, upload>>
    \/ Tick /\ UNCHANGED <<svars, upload>>

Spec == Init /\ [][Next]_vars

\* One registry on its own: the requests on the route guarded by the general
\* middleware alone, that registry's sweeper and the clock.
NextGeneral ==
    \/ \E t \in Tasks : StartRequest(t, {"limited"}) /\ UNCHANGED <<svars, upload>>
    \/ \E t \in Tasks : GetLimiterLock(t) /\ UNCHANGED <<svars, upload>>
    \/ \E t \in Tasks : GetLimiterReturn(t) /\ UNCHANGED <<svars, upload>>
    \/ \E t \in Tasks : MiddlewareAllow(t) /\ UNCHANGED <<svars, upload>>
    \/ \E t \in Tasks : Handler(t) /\ UNCHANGED <<svars, upload>>
    \/ StartSweeper("general") /\ UNCHANGED <<svars, upload>>
    \/ SweepTick("general") /\ UNCHANGED <<svars, upload>>
    \/ SweepInspect("general") /\ UNCHANGED <<svars, upload>>
    \/ Tick /\ UNCHANGED <<svars, upload>>

SpecGeneral == Init /\ [][NextGeneral]_vars

\* Requests on the routes SetupRouter registers.
NextRouter ==
    \/ \E t \in Tasks : StartRequest(t, SetupRouterRoutes) /\ UNCHANGED <<svars, upload>>
    \/ \E t \in Tasks : JwtMiddleware(t) /\ UNCHANGED <<svars, upload>>
    \/ \E t \in Tasks : Handler(t) /\ UNCHANGED <<svars, upload>>
    \/ Tick /\ UNCHANGED <<svars, upload>>

SpecRouter == Init /\ [][NextRouter]_vars

\* The requests on the guarded routes and the clock, with no sweeper.
NextMiddleware ==
    \/ \E t \in Tasks : StartRequest(t, GuardedRoutes) /\ UNCHANGED <<svars, upload>>
    \/ \E t \in Tasks : GetLimiterLock(t) /\ UNCHANGED <<svars, upload>>
    \/ \E t \in Tasks : GetLimiterReturn(t) /\ UNCHANGED <<svars, upload>>
    \/ \E t \in Tasks : MiddlewareAllow(t) /\ UNCHANGED <<svars, upload>>
    \/ \E t \in Tasks : Handler(t) /\ UNCHANGED <<svars, upload>>
    \/ Tick /\ UNCHANGED <<svars, upload>>

SpecMiddleware == Init /\ [][NextMiddleware]_vars

(***************************************************************************)
(* Properties of the rate limiter, its sweeper and the router.             *)
(***************************************************************************)

\* C2: for one key the admissions are those of a single token bucket: a
\* bucket that is full when the key is first seen (time 0) and refills at the
\* configured rate admits, up to any time, at most burst requests plus the
\* tokens refilled since; with no time elapsed, at most burst.
C2_AdmitsOfOneBucket ==
    \A p \in Policies : \A k \in Keys :
        admits[p][k] * TokenUnit <= Burst(p) * TokenUnit + now * Rate(p)

C4_AllowUnderRegistryLock ==
    [][\A t \in Tasks :
          (req[t].pc = "allow" /\ req'[t].pc # "allow") => mu[Current(t)] = t]_rlvars

\* C5: a key fresh at time 0 is admitted on exactly its first burst checks
\* while no time has elapsed (no more than burst are admitted, and none is
\* denied before burst were), and past those only once a whole token's worth
\* of time has elapsed.
C5_FreshKeyBurst ==
    [][\A p \in Policies : \A k \in Keys :
          /\ now' = 0 => admits'[p][k] <= Burst(p)
          /\ (now = 0 /\ \E t \in Tasks :
                  /\ req[t].pc = "allow" /\ Current(t) = p /\ req[t].key = k
                  /\ req'[t].status = 429)
                => admits[p][k] >= Burst(p)
          /\ (admits'[p][k] > admits[p][k] /\ admits[p][k] >= Burst(p))
                => now * Rate(p) >= TokenUnit]_rlvars

C7_SweeperRunsForEveryRegistry ==
    \A p \in Policies :
        DOMAIN limiters[p] # {} => sweeper[p].pc # "notstarted"

\* C8: on the routes SetupRouter registers, a handler has run only for a
\* request that an admission check of the general policy admitted.
C8_HandlerOnlyAfterAdmission ==
    \A t \in Tasks :
        (req[t].route \in SetupRouterRoutes /\ req[t].ran > 0)
            => "general" \in req[t].admittedBy

\* C9: on the route guarded by the general and then the strict middleware,
\* every 429 response carries the retry-after hint.
C9_DenialCarriesRetryAfter ==
    \A t \in Tasks :
        (req[t].route = "sensitive" /\ req[t].status = 429) => req[t].retryAfter

(***************************************************************************)
(* Range-aware streaming (package services, stream.go).                    *)
(*                                                                         *)
(* A Go string is the sequence of its characters, so that parsing and      *)
(* formatting are computed and not assumed.  The stored object is the      *)
(* byte sequence 0, 1, ..., objectSize-1: the byte at an offset is the     *)
(* offset, so that every interval of the object is a different sequence.   *)
(***************************************************************************)
\* largest object size
MaxSize == 11
\* largest number written in a Range header
MaxNum == 12
\* defaultBufferSize (1 MiB in the source), in bytes of the model
defaultBufferSize == 2

DigitChars == <<"0", "1", "2", "3", "4", "5", "6", "7", "8", "9">>

Digits == {DigitChars[i] : i \in 1..10}

DigitVal(c) == CHOOSE d \in 0..9 : DigitChars[d + 1] = c

\* strconv.FormatInt(n, 10), and the %d verb of fmt
RECURSIVE FormatInt(_)
FormatInt(n) ==
    IF n < 0 THEN <<"-">> \o FormatInt(0 - n)
    ELSE IF n < 10 THEN <<DigitChars[n + 1]>>
    ELSE FormatInt(n \div 10) \o <<DigitChars[(n % 10) + 1]>>

RECURSIVE DecimalValue(_)
DecimalValue(ds) ==
    IF ds = <<>> THEN 0
    ELSE DecimalValue(SubSeq(ds, 1, Len(ds) - 1)) * 10 + DigitVal(ds[Len(ds)])

\* strconv.ParseInt(str, 10, 64): an optional sign, then one or more decimal
\* digits and nothing else.  (The out-of-range error needs more than 18
\* digits, which no header of the model has.)
ParseInt(str) ==
    LET signed == str # <<>> /\ str[1] \in {"+", "-"}
        ds     == IF signed THEN Tail(str) ELSE str
    IN  IF ds = <<>> \/ \E i \in 1..Len(ds) : ds[i] \notin Digits
        THEN [ok |-> FALSE, val |-> 0]
        ELSE [ok |-> TRUE,
              val |-> IF signed /\ str[1] = "-" THEN 0 - DecimalValue(ds)
                      ELSE DecimalValue(ds)]

HasPrefix(str, prefix) ==
    /\ Len(str) >= Len(prefix)
    /\ SubSeq(str, 1, Len(prefix)) = prefix

TrimPrefix(str, prefix) ==
    IF HasPrefix(str, prefix) THEN SubSeq(str, Len(prefix) + 1, Len(str))
    ELSE str

Contains(str, c) == \E i \in 1..Len(str) : str[i] = c

\* strings.Split(str, sep) for a separator of one character
RECURSIVE Split(_, _)
Split(str, sep) ==
    LET at == {i \in 1..Len(str) : str[i] = sep}
    IN  IF at = {} THEN <<str>>
        ELSE LET i == CHOOSE j \in at : \A k \in at : j <= k
             IN  <<SubSeq(str, 1, i - 1)>>
                     \o Split(SubSeq(str, i + 1, Len(str)), sep)

BytesPrefix == <<"b", "y", "t", "e", "s", "=">>

RangeError(msg) == [err |-> msg, start |-> 0, end |-> 0]

\* a suffix length that is not clamped to the size
ClampSuffix_Unclamped(n, size) == n

\* parseRange, lines 51-53: a suffix longer than the object is the object
ClampSuffix(n, size) == IF n > size THEN size ELSE n

\* no validation at all
InvalidRangeValues_None(s, e, size) == FALSE

\* a validation that does not compare start with end
InvalidRangeValues_Lax(s, e, size) == s < 0 \/ e >= size

\* a validation that would also reject the range of a single byte
InvalidRangeValues_Strict(s, e, size) == s >= e \/ s < 0 \/ e >= size

\* the final validation of parseRange (line 74)
InvalidRangeValues(s, e, size) == s > e \/ s < 0 \/ e >= size

parseRange(hdr, size) ==
    IF ~HasPrefix(hdr, BytesPrefix) THEN RangeError("invalid range prefix")
    ELSE
    LET rangeSpec == TrimPrefix(hdr, BytesPrefix) IN
    IF Contains(rangeSpec, ",") THEN RangeError("multiple ranges not supported")
    ELSE
    LET parts == Split(rangeSpec, "-") IN
    IF Len(parts) # 2 THEN RangeError("invalid range format")
    ELSE
    LET first  == ParseInt(parts[1])
        second == ParseInt(parts[2])
        suffixLength == ClampSuffix(second.val, size)
        syntaxError ==
            IF parts[1] = <<>> THEN ~second.ok
            ELSE ~first.ok \/ (parts[2] # <<>> /\ ~second.ok)
        s == IF parts[1] = <<>> THEN size - suffixLength ELSE first.val
        e == IF parts[1] = <<>> THEN size - 1
             ELSE IF parts[2] # <<>>
                  THEN (IF second.val >= size THEN size - 1 ELSE second.val)
                  ELSE size - 1
    IN  IF syntaxError THEN RangeError("strconv.ParseInt: invalid syntax")
        ELSE IF InvalidRangeValues(s, e, size)
             THEN RangeError("invalid range values")
             ELSE [err |-> "", start |-> s, end |-> e]

\* The Range headers of the model: none, every "bytes=A-B" with A and B a
\* number or empty, and malformed ones.
RangeFields == {FormatInt(n) : n \in 0..MaxNum} \cup {<<>>}

Headers ==
    {<<>>}
    \cup {BytesPrefix \o a \o <<"-">> \o b : a \in RangeFields, b \in RangeFields}
    \cup { <<"b", "i", "t", "s", "=", "0", "-", "1">>,
           BytesPrefix \o <<"0", "-", "1", ",", "2", "-", "3">>,
           BytesPrefix \o <<"0", "-", "1", "-", "2">>,
           BytesPrefix \o <<"x", "-", "1">>,
           BytesPrefix \o <<"0", "-", "x">>,
           BytesPrefix \o <<"+", "1", "-", "2">>,
           BytesPrefix \o <<"0">> }

\* the bytes of the stored object from offset lo to offset hi
ObjectBytes(lo, hi) == [i \in 1..(hi - lo + 1) |-> lo + i - 1]

\* the text http.Error writes as the body, one byte of the model
ErrorText(code) == <<0 - code>>

InitStream ==
    /\ InitLimiter
    /\ NoUpload
    /\ objectName \in {"", "video.mp4"}
    /\ rangeHeader \in Headers
    /\ objectSize \in 0..MaxSize
    /\ enforceLength \in BOOLEAN
    /\ spc = "stat"
    /\ fileSize = 0
    /\ start = 0
    /\ end = 0
    /\ resp = NoResponse
    /\ object = [state |-> "none", pos |-> 0, limit |-> 0]
    /\ slog = {}
    /\ clientGone = FALSE

\* w.Write(data) succeeds: the connection is up and, where the writer checks
\* the declared Content-Length (net/http's response does, a recorder does
\* not), the body does not outgrow it.
WriteOk(r, data) ==
    /\ ~clientGone
    /\ (enforceLength /\ r.status # 0 /\ r.contentLength >= 0)
           => Len(r.body) + Len(data) <= r.contentLength

\* http.Error(w, msg, code): before the header is written it sets the status
\* and drops a Content-Length; after, WriteHeader has no effect and the text
\* is written to the body like any other data.
HttpError(r, code) ==
    IF r.status = 0
    THEN [r EXCEPT !.status = code, !.contentType = "text/plain",
                   !.contentLength = -1,
                   !.body = IF clientGone THEN <<>> ELSE ErrorText(code)]
    ELSE IF WriteOk(r, ErrorText(code))
         THEN [r EXCEPT !.body = @ \o ErrorText(code)]
         ELSE r

\* Stream, lines 130-143: the objectName parameter and GetObjectInfo
StreamStat ==
    /\ spc = "stat"
    /\ \/ /\ objectName = ""
          /\ resp' = HttpError(resp, 400)
          /\ spc' = "done"
          /\ UNCHANGED <<fileSize, slog>>
       \/ /\ objectName # ""
          /\ \E statOk \in BOOLEAN :
               IF statOk
               THEN /\ fileSize' = objectSize
                    /\ resp' = [resp EXCEPT !.acceptRanges = TRUE]
                    /\ spc' = "range"
                    /\ UNCHANGED slog
               ELSE /\ slog' = slog \cup {"stat"}
                    /\ resp' = HttpError(resp, 500)
                    /\ spc' = "done"
                    /\ UNCHANGED fileSize
    /\ UNCHANGED <<objectName, rangeHeader, objectSize, enforceLength, start,
                   end, object, clientGone>>

\* Stream, lines 147-150: no Range header, the headers of the full transfer
StreamFull ==
    /\ spc = "range"
    /\ rangeHeader = <<>>
    /\ resp' = [resp EXCEPT !.contentType = "video/mp4",
                            !.contentLength = fileSize, !.status = 200]
    /\ spc' = "get"
    /\ UNCHANGED <<objectName, rangeHeader, objectSize, enforceLength,
                   fileSize, start, end, object, slog, clientGone>>

\* a Stream that answers 400 to a rejected Range header and goes on to the
\* transfer all the same
StreamRange_NoReturn ==
    LET parsed == parseRange(rangeHeader, fileSize) IN
    /\ spc = "range"
    /\ rangeHeader # <<>>
    /\ IF parsed.err # ""
       THEN /\ resp' = HttpError(resp, 400)
            /\ slog' = slog \cup {"range"}
            /\ UNCHANGED <<start, end>>
       ELSE /\ start' = parsed.start
            /\ end' = parsed.end
            /\ resp' = [resp EXCEPT
                          !.contentType = "video/mp4",
                          !.contentLength = parsed.end - parsed.start + 1,
                          !.contentRange =
                              <<parsed.start, parsed.end, fileSize>>,
                          !.status = 206]
            /\ UNCHANGED slog
    /\ spc' = "get"
    /\ UNCHANGED <<objectName, rangeHeader, objectSize, enforceLength,
                   fileSize, object, clientGone>>

\* Stream, lines 161-171: parseRange, then the 400 or the 206 headers
StreamRange ==
    LET parsed == parseRange(rangeHeader, fileSize) IN
    /\ spc = "range"
    /\ rangeHeader # <<>>
    /\ IF parsed.err # ""
       THEN /\ resp' = HttpError(resp, 400)
            /\ slog' = slog \cup {"range"}
            /\ spc' = "done"
            /\ UNCHANGED <<start, end>>
       ELSE /\ start' = parsed.start
            /\ end' = parsed.end
            /\ resp' = [resp EXCEPT
                          !.contentType = "video/mp4",
                          !.contentLength = parsed.end - parsed.start + 1,
                          !.contentRange =
                              <<parsed.start, parsed.end, fileSize>>,
                          !.status = 206]
            /\ spc' = "get"
            /\ UNCHANGED slog
    /\ UNCHANGED <<objectName, rangeHeader, objectSize, enforceLength,
                   fileSize, object, clientGone>>

\* Get (called at line 152 and at line 180): GetObject with empty
\* GetObjectOptions, so the object is opened from its first to its last byte;
\* the options ReadBuffer builds with SetRange(start, end) are not passed on.
Get ==
    /\ spc = "get"
    /\ \E getOk \in BOOLEAN :
         IF getOk
         THEN /\ object' = [state |-> "open", pos |-> 0, limit |-> objectSize]
              /\ UNCHANGED <<resp, slog>>
         ELSE /\ resp' = HttpError(resp, 500)
              /\ slog' = slog \cup {"get"}
              /\ object' = [state |-> "nil", pos |-> 0, limit |-> 0]
    /\ spc' = "read"
    /\ UNCHANGED <<objectName, rangeHeader, objectSize, enforceLength,
                   fileSize, start, end, clientGone>>

\* object.Read(buffer): what one call can return.  A nil *Object answers an
\* error; an open one returns up to a buffer of the bytes that remain, the
\* end of the stream with or after the last of them, or a store error.
ReadOutcomes ==
    IF object.state = "nil" THEN {[n |-> 0, err |-> "nil object"]}
    ELSE LET rem == object.limit - object.pos
         IN  {[n |-> k, err |-> ""] : k \in 1..Min(defaultBufferSize, rem)}
                 \cup (IF rem <= defaultBufferSize THEN {[n |-> rem, err |-> "EOF"]}
                       ELSE {})
                 \cup {[n |-> 0, err |-> "store"]}

\* One iteration of a copy loop: Read, then Write (and Flush where the loop
\* flushes), then the test of the read error; the deferred object.Close()
\* runs when the loop ends.
CopyIteration(flush, writeLog, readLog) ==
    \E o \in ReadOutcomes :
        LET data    == ObjectBytes(object.pos, object.pos + o.n - 1)
            written == o.n > 0 /\ WriteOk(resp, data)
            failed  == o.n > 0 /\ ~WriteOk(resp, data)
            over    == failed \/ o.err # ""
        IN  /\ resp' = IF written
                       THEN [resp EXCEPT
                               !.body = @ \o data,
                               !.flushes = IF flush THEN @ + 1 ELSE @]
                       ELSE resp
            /\ slog' = IF failed THEN slog \cup {writeLog}
                       ELSE IF o.err \notin {"", "EOF"}
                            THEN slog \cup {readLog}
                            ELSE slog
            /\ object' = [object EXCEPT
                            !.pos = @ + o.n,
                            !.state = IF over THEN "closed" ELSE @]
            /\ spc' = IF over THEN "done" ELSE "read"

\* ReadBuffer, lines 183-200
ReadBuffer ==
    /\ spc = "read"
    /\ resp.status = 206
    /\ CopyIteration(TRUE, "write", "read")
    /\ UNCHANGED <<objectName, rangeHeader, objectSize, enforceLength,
                   fileSize, start, end, clientGone>>

\* Stream, lines 155-157: io.Copy(w, object), which does not flush
Copy ==
    /\ spc = "read"
    /\ resp.status = 200
    /\ CopyIteration(FALSE, "copy", "copy")
    /\ UNCHANGED <<objectName, rangeHeader, objectSize, enforceLength,
                   fileSize, start, end, clientGone>>

\* the client closes the connection
ClientDisconnect ==
    /\ spc # "done"
    /\ ~clientGone
    /\ clientGone' = TRUE
    /\ UNCHANGED <<objectName, rangeHeader, objectSize, enforceLength, spc,
                   fileSize, start, end, resp, object, slog>>

NextStream ==
    \/ StreamStat /\ UNCHANGED <<rlvars, upload>>
    \/ StreamFull /\ UNCHANGED <<rlvars, upload>>
    \/ StreamRange /\ UNCHANGED <<rlvars, upload>>
    \/ Get /\ UNCHANGED <<rlvars, upload>>
    \/ ReadBuffer /\ UNCHANGED <<rlvars, upload>>
    \/ Copy /\ UNCHANGED <<rlvars, upload>>
    \/ ClientDisconnect /\ UNCHANGED <<rlvars, upload>>

SpecStream == InitStream /\ [][NextStream]_vars

\* C1: when parseRange accepted the Range header as (start, end) and the
\* transfer ran to the end of the store's stream with no store failure and
\* the client connected, the response is a 206 whose body is exactly the
\* bytes start..end of the stored object.
C1_PartialBodyIsRequestedRange ==
    ( /\ spc = "done"
      /\ rangeHeader # <<>>
      /\ objectName # ""
      /\ "stat" \notin slog
      /\ parseRange(rangeHeader, fileSize).err = ""
      /\ ~clientGone
      /\ slog \cap {"get", "read"} = {} )
        => /\ resp.status = 206
           /\ resp.body = ObjectBytes(start, end)

\* C10: for 0 <= s <= e < size, parseRange of the header "bytes=s-e" written
\* in decimal succeeds and returns exactly (s, e).
C10_BoundedRangeRoundTrip ==
    \A s \in 0..MaxNum : \A e \in 0..MaxNum :
        ( /\ spc \notin {"stat", "range"}
          /\ "stat" \notin slog /\ objectName # ""
          /\ rangeHeader = BytesPrefix \o FormatInt(s) \o <<"-">> \o FormatInt(e)
          /\ s <= e /\ e < fileSize )
            => /\ resp.status = 206
               /\ start = s
               /\ end = e
               /\ resp.contentRange = <<s, e, fileSize>>

\* A header "bytes=s-e" with s <= e < size and e of two digits has been
\* parsed and the 206 headers written.
C10_Witness ==
    /\ spc = "get"
    /\ \E s \in 0..MaxNum : \E e \in 0..MaxNum :
         /\ rangeHeader = BytesPrefix \o FormatInt(s) \o <<"-">> \o FormatInt(e)
         /\ s <= e /\ e < fileSize /\ e >= 10
         /\ resp.status = 206

\* The Range header has been parsed by Stream: the request named an object,
\* the stat succeeded and a Range header was there.
RangeParsed ==
    /\ objectName # ""
    /\ "stat" \notin slog
    /\ rangeHeader # <<>>
    /\ spc \notin {"stat", "range"}

\* the header "bytes=-N"
SuffixHeader(n) == BytesPrefix \o <<"-">> \o FormatInt(n)

\* the header "bytes=N-"
PrefixHeader(n) == BytesPrefix \o FormatInt(n) \o <<"-">>

\* C11 as stated: for every suffix length N >= 0 and every size >= 0,
\* parseRange("bytes=-N", size) returns (size - min(N, size), size - 1).
C11_SuffixAlwaysReturnsRange ==
    \A n \in 0..MaxNum :
        (RangeParsed /\ rangeHeader = SuffixHeader(n))
            => /\ resp.status = 206
               /\ start = fileSize - Min(n, fileSize)
               /\ end = fileSize - 1

\* C11: for a suffix length N >= 1 and a size >= 1, "bytes=-N" is parsed as
\* (size - min(N, size), size - 1); for N = 0 or size = 0 that pair would
\* have start > end and the header is rejected (400, no range returned).
C11_SuffixRange ==
    \A n \in 0..MaxNum :
        (RangeParsed /\ rangeHeader = SuffixHeader(n))
            => IF n >= 1 /\ fileSize >= 1
               THEN /\ resp.status = 206
                    /\ start = fileSize - Min(n, fileSize)
                    /\ end = fileSize - 1
                    /\ resp.contentRange = <<start, end, fileSize>>
               ELSE /\ resp.status = 400
                    /\ parseRange(rangeHeader, fileSize).err = "invalid range values"

\* A suffix longer than the object has been parsed (and clamped), of an
\* object of more than one byte.
C11_Witness ==
    /\ RangeParsed
    /\ resp.status = 206
    /\ fileSize >= 2
    /\ \E n \in 0..MaxNum : rangeHeader = SuffixHeader(n) /\ n > fileSize

\* C12: "bytes=N-" is parsed as (N, size - 1) when N < size and is rejected
\* as out of bounds (400) when N >= size.
C12_OpenEndedRange ==
    \A n \in 0..MaxNum :
        (RangeParsed /\ rangeHeader = PrefixHeader(n))
            => IF n < fileSize
               THEN /\ resp.status = 206
                    /\ start = n
                    /\ end = fileSize - 1
               ELSE /\ resp.status = 400
                    /\ resp.contentRange = <<>>
                    /\ parseRange(rangeHeader, fileSize).err = "invalid range values"

\* "bytes=N-" with N >= size has been rejected for an object that is not
\* empty.
C12_Witness ==
    /\ RangeParsed
    /\ resp.status = 400
    /\ fileSize >= 1
    /\ \E n \in 0..MaxNum : rangeHeader = PrefixHeader(n) /\ n >= fileSize

\* the body holds no byte of the stored object (the bytes of an error text
\* are negative, those of the object are its offsets)
NoObjectBytes == \A i \in 1..Len(resp.body) : resp.body[i] < 0

\* C13: whenever the objectName parameter is empty or the stat call fails,
\* Stream responds 404, never opens the object and writes no object bytes.
C13_NotFoundOnMissingObject ==
    (spc = "done" /\ (objectName = "" \/ "stat" \in slog))
        => /\ resp.status = 404
           /\ object.state = "none"
           /\ NoObjectBytes

\* C14: when a Range header is present and parseRange rejects it, Stream
\* responds 400 and stops; it never opens a read on the store, never writes a
\* byte of the object, and never emits the 206 status or a Content-Range.
C14_RejectedRangeIs400 ==
    ( /\ objectName # ""
      /\ "stat" \notin slog
      /\ spc # "stat"
      /\ rangeHeader # <<>>
      /\ parseRange(rangeHeader, fileSize).err # "" )
        => /\ resp.status \in {0, 400}
           /\ resp.contentRange = <<>>
           /\ object.state = "none"
           /\ NoObjectBytes
           /\ spc \in {"range", "done"}
           /\ spc = "done" => (resp.status = 400 /\ "range" \in slog)

\* A header of two ranges has been rejected for an object that is not empty,
\* while the client is connected.
C14_Witness ==
    /\ RangeParsed
    /\ spc = "done"
    /\ resp.status = 400
    /\ resp.body = ErrorText(400)
    /\ fileSize >= 1
    /\ Contains(rangeHeader, ",")

(***************************************************************************)
(* Upload (package services, upload.go).                                   *)
(*                                                                         *)
(* The request body is bodyLen bytes: a multipart form of formLen bytes,   *)
(* its closing boundary included, and whatever follows it.  FormFile       *)
(* parses the form through http.MaxBytesReader, which fails the read that  *)
(* would take more than the cap; the multipart reader stops at the closing *)
(* boundary and asks for nothing after it.                                 *)
(***************************************************************************)
\* the cap of http.MaxBytesReader (100 MiB in the source), in bytes of the
\* model
UploadCap == 3
\* largest request body
MaxBody == 5

\* header.Size: the form less the boundary that closes it
FileSize(formLen) == formLen - 1

InitUpload ==
    /\ InitLimiter
    /\ NoStream
    /\ \E bodyLen \in 0..MaxBody : \E formLen \in 0..bodyLen :
       \E hasFile \in BOOLEAN :
         /\ hasFile => formLen >= 1
         /\ upload = [pc |-> "read", bodyLen |-> bodyLen, formLen |-> formLen,
                      hasFile |-> hasFile, read |-> 0, status |-> 0,
                      puts |-> 0, stored |-> -1]

\* UploadVideo, lines 15-22: c.Request.FormFile("file") reads the next byte of
\* the form through the MaxBytesReader; the byte after the cap is an error,
\* and so is a form with no "file" part.
UploadFormFile ==
    /\ upload.pc = "read"
    /\ IF upload.read < upload.formLen
       THEN IF upload.read + 1 > UploadCap
            THEN upload' = [upload EXCEPT !.status = 400, !.pc = "done"]
            ELSE upload' = [upload EXCEPT !.read = @ + 1]
       ELSE IF upload.hasFile
            THEN upload' = [upload EXCEPT !.pc = "put"]
            ELSE upload' = [upload EXCEPT !.status = 400, !.pc = "done"]
    /\ UNCHANGED <<rlvars, svars>>

\* UploadVideo, lines 25-53: PutObject and the answer
UploadPutObject ==
    /\ upload.pc = "put"
    /\ \E putOk \in BOOLEAN :
         upload' = [upload EXCEPT
                      !.puts = @ + 1,
                      !.stored = IF putOk THEN FileSize(upload.formLen) ELSE @,
                      !.status = IF putOk THEN 200 ELSE 500,
                      !.pc = "done"]
    /\ UNCHANGED <<rlvars, svars>>

NextUpload ==
    \/ UploadFormFile
    \/ UploadPutObject

SpecUpload == InitUpload /\ [][NextUpload]_vars

\* C15: an upload whose body exceeds the cap never reaches the store's put
\* operation, no object is created for it, and it is rejected.
C15_OversizedUploadNeverPut ==
    upload.bodyLen > UploadCap
        => /\ upload.puts = 0
           /\ upload.pc # "put"
           /\ upload.stored = -1
           /\ upload.pc = "done" => upload.status \notin {0, 200}

\* C20: when a rate limit middleware denies a request the status is 429, the
\* request is aborted and nothing downstream runs for it; when it admits, the
\* downstream chain is entered exactly once and that middleware writes no 429.
C20_DenyAbortsAdmitContinues ==
    \A t \in Tasks :
        req[t].route \in GuardedRoutes =>
            /\ req[t].deniedBy # "none" =>
                   /\ req[t].status = 429
                   /\ req[t].pc = "done"
                   /\ req[t].ran = 0
                   /\ Current(t) = req[t].deniedBy
                   /\ req[t].deniedBy \notin req[t].admittedBy
            /\ req[t].status = 429 => req[t].deniedBy # "none"
            /\ req[t].idx = 1 + Cardinality(req[t].admittedBy)
            /\ req[t].ran <= 1
            /\ req[t].ran = 1 =>
                   /\ req[t].deniedBy = "none"
                   /\ req[t].status = 200
                   /\ \A i \in 1..(Len(Chain(req[t].route)) - 1) :
                          Chain(req[t].route)[i] \in req[t].admittedBy

\* One request went through both middlewares to the handler; another was
\* admitted by the general middleware and denied by the strict one.
C20_Witness ==
    \E t1 \in Tasks : \E t2 \in Tasks :
        /\ req[t1].route = "sensitive" /\ req[t1].ran = 1
        /\ req[t2].route = "sensitive"
        /\ req[t2].admittedBy = {"general"} /\ req[t2].deniedBy = "strict"

\* C16: once the 200 or 206 header is committed, a store failure on opening
\* or reading the object puts no error response (status or error text) on
\* the wire: the body holds object bytes only.
C16_NoErrorResponseAfterCommit ==
    resp.status \in {200, 206}
        => \A i \in 1..Len(resp.body) : resp.body[i] >= 0

\* C17: when the client has disconnected, the iteration of the copy loop that
\* meets the failed write ends the loop and adds no entry to the error log.
C17_DisconnectNotLogged ==
    [][ ( /\ clientGone
          /\ spc = "read"
          /\ object'.pos > object.pos
          /\ resp'.body = resp.body )
            => /\ spc' = "done"
               /\ slog' = slog ]_vars

\* C18: in the full and in the partial transfer alike, every chunk written to
\* the client is at most the buffer size and is followed by a flush before
\* the next read; a read or write error ends the loop.
C18_ChunkThenFlush ==
    [][ /\ ( /\ spc = "read"
             /\ resp'.body # resp.body )
               => /\ Len(resp'.body) - Len(resp.body) <= defaultBufferSize
                  /\ resp'.flushes = resp.flushes + 1
        /\ ( /\ spc = "read"
             /\ slog' # slog )
               => spc' = "done" ]_vars

\* C19: whenever parseRange accepts a header the pair it returns satisfies
\* 0 <= start <= end < size, and the Content-Length of the 206 is
\* end - start + 1, between 1 and the size.
C19_AcceptedRangeWithinObject ==
    /\ LET parsed == parseRange(rangeHeader, objectSize)
       IN  parsed.err = "" =>
               /\ 0 <= parsed.start
               /\ parsed.start <= parsed.end
               /\ parsed.end < objectSize
    /\ resp.status = 206 =>
         /\ 0 <= start /\ start <= end /\ end < fileSize
         /\ resp.contentLength = end - start + 1
         /\ 1 <= resp.contentLength /\ resp.contentLength <= fileSize
         /\ resp.contentRange = <<start, end, fileSize>>

\* A bounded request whose end lies past the object has been accepted with
\* its end clamped to size - 1.
C19_Witness ==
    /\ RangeParsed
    /\ resp.status = 206
    /\ end = fileSize - 1
    /\ \E s \in 0..MaxNum : \E e \in 0..MaxNum :
         /\ rangeHeader = BytesPrefix \o FormatInt(s) \o <<"-">> \o FormatInt(e)
         /\ e >= fileSize
         /\ s >= 1

=============================================================================
